---- MODULE Spec2Model ----
(***************************************************************************)
(* Model of the FLUX.2 job client of ComfyUI-Floyo-Flux2-API-node:         *)
(* nodes/flux2_config.py (Flux2Config) and nodes/flux2_utils.py (Flux2API).*)
(*                                                                         *)
(* Python values are tagged records.  A str is a sequence of chunks: a     *)
(* chunk is one whitespace character or a maximal run of non-whitespace    *)
(* characters, so str.strip() and == are computed, not assumed.  A dict    *)
(* over a known key set is a total function whose absent keys map to       *)
(* Missing.                                                                *)
(***************************************************************************)
EXTENDS Integers, Sequences, FiniteSets, TLC

VARIABLES
    environ,        \* os.environ restricted to the three BFL_* variables
    config_file,    \* section [API] of config.ini
    instance,       \* Flux2Config._instance (None or the resolved settings)
    pc,             \* position of the calling thread
    timeout,        \* Flux2API.timeout
    poll_interval,  \* Flux2API.poll_interval
    headers,        \* Flux2API.headers
    payload,        \* the caller's payload mapping handed to run/submit_request
    http,           \* the last HTTP request issued
    post_resp,      \* the response received for the POST
    get_resp,       \* the last response received for a status GET
    initial,        \* run: the submission payload
    final,          \* run: the payload poll_result returned
    now,            \* time.time()
    start_time,     \* poll_result: start_time
    last_status,    \* poll_result: last_status
    printed,        \* whether the last status response printed a status line
    outcome,        \* how the call ended: returned value or raised exception
    nPost,          \* POST requests issued so far
    nGet,           \* status GET requests issued so far (saturating)
    nSleep,         \* time.sleep calls so far (saturating)
    warned,         \* the warnings Flux2Config._initialize has printed
    node,           \* the node adapter being executed and its inputs
    node_ret,       \* the tuple the node adapter returned to the host
    download,       \* the image download request and its response
    fn_args,        \* arguments of a helper function called on its own
    fn_ret          \* what that helper returned or raised

vars == <<environ, config_file, instance, pc, timeout, poll_interval, headers,
          payload, http, post_resp, get_resp, initial, final, now, start_time,
          last_status, printed, outcome, nPost, nGet, nSleep, warned, node,
          node_ret, download, fn_args, fn_ret>>

extVars == <<node, node_ret, download, fn_args, fn_ret>>

cfgVars == <<environ, config_file, instance>>
jobVars == <<timeout, poll_interval, headers, payload, http, post_resp,
             get_resp, initial, final, now, start_time, last_status, printed,
             outcome, nPost, nGet, nSleep>>

-----------------------------------------------------------------------------
(* Bounds *)

MaxTimeout == 2
MaxInterval == 1
MaxLatency == 1
MaxOversleep == 1
CountCap == 3

\* The clock saturates one tick above the latest time a poll can end.
ClockCap == MaxTimeout + MaxInterval + MaxLatency + MaxOversleep + 1
MaxStrLen == 2

-----------------------------------------------------------------------------
(* Python values *)

None == [t |-> "NoneType"]

\* An integer attribute or local that has not been assigned yet.
NotYet == -1

Missing == [t |-> "missing"]
Str(chunks) == [t |-> "str", s |-> chunks]
PyInt(n) == [t |-> "int", i |-> n]
Dict(fields) == [t |-> "dict", d |-> fields]

WS == " "
Whitespace == {" ", "\t", "\n"}

RECURSIVE LStrip(_)
LStrip(s) == IF s # <<>> /\ Head(s) \in Whitespace THEN LStrip(Tail(s)) ELSE s

RECURSIVE RStrip(_)
RStrip(s) ==
    IF s # <<>> /\ s[Len(s)] \in Whitespace
    THEN RStrip(SubSeq(s, 1, Len(s) - 1))
    ELSE s

\* str.strip()
Strip(s) == RStrip(LStrip(s))

\* bool(v)
Truthy(v) ==
    CASE v.t = "NoneType" -> FALSE
      [] v.t = "missing" -> FALSE
      [] v.t = "str" -> v.s # <<>>
      [] v.t = "int" -> v.i # 0
      [] v.t = "dict" -> \E k \in DOMAIN v.d : v.d[k].t # "missing"

\* key in d
Has(d, k) == d[k].t # "missing"

\* d.get(k, default)
Get(d, k, default) == IF Has(d, k) THEN d[k] ELSE default

Min(a, b) == IF a < b THEN a ELSE b

-----------------------------------------------------------------------------
(* Flux2Config *)

EnvNames == {"BFL_API_KEY", "BFL_BASE_URL", "BFL_FLEX_BASE_URL"}

default_base == Str(<<"https://api.bfl.ai/v1/flux-2-pro">>)
default_flex_base == Str(<<"https://api.bfl.ai/v1/flux-2-flex">>)

\* os.environ.setdefault(name, value)
SetDefault(env, name, value) ==
    IF Has(env, name) THEN env ELSE [env EXCEPT ![name] = value]

ResolveFileFirst(env, file, name, default) ==
    LET from_env == Get(env, name, None)
        from_file == Get(file, name, None)
    IN  IF Truthy(from_file)
        THEN [value |-> from_file,
              env |-> SetDefault(env, name, from_file), src |-> "file"]
        ELSE IF Truthy(from_env)
             THEN [value |-> from_env, env |-> env, src |-> "env"]
             ELSE [value |-> default, env |-> env, src |-> "default"]

\* One setting of Flux2Config._initialize: the environment value when truthy,
\* else the file value when truthy (also exported to the environment), else
\* the default.
Resolve(env, file, name, default) ==
    LET from_env == Get(env, name, None)
        from_file == Get(file, name, None)
    IN  IF Truthy(from_env) THEN [value |-> from_env, env |-> env, src |-> "env"]
        ELSE IF Truthy(from_file)
             THEN [value |-> from_file,
                   env |-> SetDefault(env, name, from_file), src |-> "file"]
             ELSE [value |-> default, env |-> env, src |-> "default"]

PLACEHOLDER == Str(<<"<your_bfl_api_key_here>">>)

\* _initialize: `self._key and self._key.strip() == "<your_bfl_api_key_here>"`
IsPlaceholder(key) == Truthy(key) /\ Strip(key.s) = PLACEHOLDER.s

\* Flux2Config._initialize: the three settings are read before any is
\* exported, and each export touches only its own variable.
Initialize(env, file) ==
    LET k == Resolve(env, file, "BFL_API_KEY", None)
        b == Resolve(k.env, file, "BFL_BASE_URL", default_base)
        f == Resolve(b.env, file, "BFL_FLEX_BASE_URL", default_flex_base)
    IN  [inst |-> [key |-> k.value, base_url |-> b.value,
                   flex_base_url |-> f.value],
         env |-> f.env,
         log |-> (IF k.src = "default" THEN {"no key"} ELSE {})
                    \cup (IF IsPlaceholder(k.value) THEN {"placeholder key"}
                          ELSE {})]

Flux2ConfigNewAlways(inst, env, file) == Initialize(env, file)

\* Flux2Config(): __new__ initialises the singleton on first use only.
Flux2ConfigNew(inst, env, file) ==
    IF inst = None THEN Initialize(env, file)
    ELSE [inst |-> inst, env |-> env, log |-> {}]

get_key(inst) == inst.key
get_base_url(inst) == inst.base_url
get_flex_base_url(inst) == inst.flex_base_url

-----------------------------------------------------------------------------
(* HTTP: what the remote API (or the network) may answer *)

\* The JSON body of a response that is not valid JSON.
NotJson == [t |-> "notjson"]

\* requests raised before any response arrived (connection error, timeout).
NoResponse == [code |-> 0, body |-> NotJson]

\* Status codes of the responses: success, server error, and a redirect
\* status that requests hands back as it is.
Codes == {200, 500}
NOT_MODIFIED == 304

POLLING_URL == Str(<<"https://api.bfl.ai/poll">>)
SAMPLE_URL == Str(<<"https://delivery.bfl.ai/sample.jpeg">>)

SubmitBodies ==
    [polling_url : {Missing, POLLING_URL},
     id : {Missing, Str(<<>>), Str(<<"req-1">>)},
     cost : {Missing, PyInt(3)}]

PostResponses ==
    {NoResponse}
        \cup [code : Codes, body : {NotJson} \cup SubmitBodies]
        \cup [code : {NOT_MODIFIED},
              body : {NotJson,
                      [polling_url |-> POLLING_URL, id |-> Str(<<"req-1">>),
                       cost |-> Missing]}]

Ready == Str(<<"Ready">>)

FailureStatusesUnmoderated == {Str(<<"Error">>), Str(<<"Failed">>)}

\* poll_result: the statuses that raise the generation failure
FailureStatuses ==
    {Str(<<"Error">>), Str(<<"Failed">>), Str(<<"Content", WS, "Moderated">>),
     Str(<<"Request", WS, "Moderated">>)}
StatusValues ==
    {Missing, Str(<<"Pending">>), Str(<<"ready">>), Str(<<"Ready">>),
     Str(<<"Error">>), Str(<<"Failed">>), Str(<<"Content", WS, "Moderated">>),
     Str(<<"Request", WS, "Moderated">>)}

ResultValues ==
    {Missing, None, Dict([sample |-> Missing]), Dict([sample |-> SAMPLE_URL])}

PollBodies ==
    [status : StatusValues, result : {Missing}]
        \cup [status : {Str(<<"Ready">>)}, result : ResultValues]

GetResponses ==
    {NoResponse}
        \cup [code : Codes, body : {NotJson} \cup PollBodies]
        \cup [code : {NOT_MODIFIED},
              body : {NotJson,
                      [status |-> Str(<<"Ready">>),
                       result |-> Dict([sample |-> SAMPLE_URL])]}]

\* Response.raise_for_status(): raises HTTPError for a 4xx or 5xx status.
RaisesForStatus(code) == code >= 400 /\ code < 600

\* The exception, if any, that requests.post/get, raise_for_status and
\* response.json() raise for a response; None when the JSON body is returned.
TransportError(r) ==
    IF r = NoResponse THEN [type |-> "ConnectionError"]
    ELSE IF RaisesForStatus(r.code) THEN [type |-> "HTTPError", code |-> r.code]
    ELSE IF r.body = NotJson THEN [type |-> "JSONDecodeError"]
    ELSE None

-----------------------------------------------------------------------------
(* Flux2API *)

BASE_URL == Str(<<"https://api.bfl.ai/v1/flux-2-pro">>)

NoRequest == [method |-> "none"]
NoOutcome == [kind |-> "none"]
Raised(e) == [kind |-> "raise", exc |-> e]
Returned(v) == [kind |-> "return", value |-> v]

Flux2APIError(m) == [type |-> "Flux2APIError", msg |-> m]

StripEmptyFalsy(p) ==
    [k \in DOMAIN p |-> IF Truthy(p[k]) THEN p[k] ELSE Missing]

\* Flux2API._strip_empty
StripEmpty(p) ==
    [k \in DOMAIN p |->
        IF ~Has(p, k) THEN Missing
        ELSE IF p[k] = None THEN Missing
        ELSE IF p[k].t = "str" /\ Strip(p[k].s) = <<>> THEN Missing
        ELSE p[k]]

KeyMissingNever(api_key) == FALSE

KeyMissingOrPlaceholder(api_key) == ~Truthy(api_key) \/ IsPlaceholder(api_key)

\* Flux2API.__init__: `if not api_key`
KeyMissing(api_key) == ~Truthy(api_key)

\* Flux2API.__init__: self.headers
Headers(api_key) ==
    [accept |-> Str(<<"application/json">>),
     content_type |-> Str(<<"application/json">>),
     x_key |-> api_key]

\* Flux2API.__init__
Flux2APIInit(timeouts, intervals) ==
    /\ pc = "init"
    /\ \E t \in timeouts, p \in intervals :
          /\ timeout' = t
          /\ poll_interval' = p
    /\ LET c == Flux2ConfigNew(instance, environ, config_file)
           api_key == get_key(c.inst)
       IN  /\ instance' = c.inst
           /\ environ' = c.env
           /\ warned' = warned \cup c.log
           /\ IF KeyMissing(api_key)
              THEN /\ outcome' = Raised(Flux2APIError("BFL_API_KEY is not set"))
                   /\ pc' = "done"
                   /\ UNCHANGED headers
              ELSE /\ headers' = Headers(api_key)
                   /\ pc' = "constructed"
                   /\ UNCHANGED outcome
    /\ UNCHANGED <<config_file, payload, http, post_resp, get_resp, initial,
                   final, now, start_time, last_status, printed, nPost, nGet,
                   nSleep, extVars>>

ProtocolErrorNoIdCheck(data) ==
    IF ~Has(data, "polling_url") THEN Flux2APIError("no polling_url") ELSE None

\* submit_request: the checks on the decoded submission payload; None when
\* the payload is accepted.
ProtocolError(data) ==
    IF ~Has(data, "polling_url") THEN Flux2APIError("no polling_url")
    ELSE IF ~Has(data, "id") THEN Flux2APIError("no request id")
    ELSE None

\* Flux2API.submit_request as called by run, up to the first clock read of
\* poll_result.
SubmitRequest ==
    /\ pc = "constructed"
    /\ \E r \in PostResponses :
          LET body == StripEmpty(payload)
              err == TransportError(r)
              data == r.body
          IN  /\ http' = [method |-> "POST", url |-> BASE_URL,
                          headers |-> headers, json |-> body, params |-> None,
                          at |-> now]
              /\ nPost' = nPost + 1
              /\ post_resp' = r
              /\ IF err # None
                 THEN /\ outcome' = Raised(err)
                      /\ pc' = "done"
                      /\ UNCHANGED <<initial, start_time, last_status>>
                 ELSE IF ProtocolError(data) # None
                 THEN /\ outcome' = Raised(ProtocolError(data))
                      /\ pc' = "done"
                      /\ UNCHANGED <<initial, start_time, last_status>>
                 ELSE /\ initial' = data
                      /\ start_time' = now
                      /\ last_status' = None
                      /\ pc' = "poll_check"
                      /\ UNCHANGED outcome
    /\ UNCHANGED <<cfgVars, timeout, poll_interval, headers, payload, get_resp,
                   final, now, printed, nGet, nSleep, warned, extVars>>

WithinDeadlineInclusive(t_now, t_start, t_out) == (t_now - t_start) <= t_out

WithinDeadlineAlways(t_now, t_start, t_out) == TRUE

\* poll_result: the loop condition `(time.time() - start_time) < self.timeout`
WithinDeadline(t_now, t_start, t_out) == (t_now - t_start) < t_out

PollParamsNever(request_id) == None

\* poll_result: `params={"id": request_id} if request_id else None`
PollParams(request_id) ==
    IF Truthy(request_id) THEN Dict([id |-> request_id]) ELSE None

\* poll_result: the loop condition, then either the status request or the
\* timeout error after the loop.
PollCheck ==
    /\ pc = "poll_check"
    /\ IF WithinDeadline(now, start_time, timeout)
       THEN LET request_id == Get(initial, "id", None)
            IN  /\ http' = [method |-> "GET", url |-> initial["polling_url"],
                            headers |-> headers, json |-> None,
                            params |-> PollParams(request_id),
                            at |-> now]
                /\ nGet' = Min(nGet + 1, CountCap)
                /\ pc' = "poll_wait"
                /\ UNCHANGED outcome
       ELSE /\ outcome' = Raised([type |-> "Flux2APIError", msg |-> "timed out",
                                  timeout |-> timeout])
            /\ pc' = "done"
            /\ UNCHANGED <<http, nGet>>
    /\ UNCHANGED <<cfgVars, timeout, poll_interval, headers, payload,
                   post_resp, get_resp, initial, final, now, start_time,
                   last_status, printed, nPost, nSleep, warned, extVars>>

RunResultWithoutCost(init, fin) ==
    LET result == Get(fin, "result", Dict([sample |-> Missing]))
    IN  IF result.t # "dict"
        THEN Raised([type |-> "AttributeError"])
        ELSE Returned([sample |-> Get(result.d, "sample", None),
                       cost |-> None,
                       request |-> init,
                       result |-> fin])

\* run: the convenience fields built from the two payloads once poll_result
\* has returned.
RunResult(init, fin) ==
    LET result == Get(fin, "result", Dict([sample |-> Missing]))
    IN  IF result.t # "dict"
        THEN Raised([type |-> "AttributeError"])
        ELSE Returned([sample |-> Get(result.d, "sample", None),
                       cost |-> Get(init, "cost", None),
                       request |-> init,
                       result |-> fin])

StatusActionReadyIgnored(status) ==
    IF status \in FailureStatuses THEN "raise" ELSE "sleep"

StatusActionNoStatusFails(status) ==
    IF status = Ready THEN "return"
    ELSE IF status \in FailureStatuses \cup {None} THEN "raise"
    ELSE "sleep"

\* poll_result: what the loop body does with a status: return the payload,
\* raise the generation failure, or sleep and go round again.
StatusAction(status) ==
    IF status = Ready THEN "return"
    ELSE IF status \in FailureStatuses THEN "raise"
    ELSE "sleep"

\* poll_result: the status response arrives and is acted upon.
PollResponse ==
    /\ pc = "poll_wait"
    /\ \E lat \in 0..MaxLatency, r \in GetResponses :
          LET err == TransportError(r)
              status == Get(r.body, "status", None)
          IN  /\ now' = Min(now + lat, ClockCap)
              /\ get_resp' = r
              /\ IF err # None
                 THEN /\ outcome' = Raised(err)
                      /\ pc' = "done"
                      /\ UNCHANGED <<last_status, printed, final>>
                 ELSE /\ printed' = (status # last_status)
                      /\ last_status' = status
                      /\ IF StatusAction(status) = "return"
                         THEN /\ final' = r.body
                              /\ outcome' = RunResult(initial, r.body)
                              /\ pc' = "done"
                         ELSE IF StatusAction(status) = "raise"
                         THEN /\ outcome' =
                                   Raised([type |-> "Flux2APIError",
                                           msg |-> "failed",
                                           status |-> status,
                                           payload |-> r.body])
                              /\ pc' = "done"
                              /\ UNCHANGED final
                         ELSE /\ pc' = "sleep"
                              /\ UNCHANGED <<outcome, final>>
    /\ UNCHANGED <<cfgVars, timeout, poll_interval, headers, payload, http,
                   post_resp, initial, start_time, nPost, nGet, nSleep, warned,
                   extVars>>

\* poll_result: time.sleep(self.poll_interval)
Sleep ==
    /\ pc = "sleep"
    /\ \E over \in 0..MaxOversleep :
          now' = Min(now + poll_interval + over, ClockCap)
    /\ nSleep' = Min(nSleep + 1, CountCap)
    /\ pc' = "poll_check"
    /\ UNCHANGED <<cfgVars, timeout, poll_interval, headers, payload, http,
                   post_resp, get_resp, initial, final, start_time,
                   last_status, printed, outcome, nPost, nGet, warned, extVars>>

-----------------------------------------------------------------------------
(* The job client: one Flux2API() construction followed by run(payload) *)

KEY_ENV == Str(<<"key-from-env">>)
KEY_FILE == Str(<<"key-from-file">>)

NoEnv == [n \in EnvNames |-> Missing]

JobEnvs == {NoEnv, [NoEnv EXCEPT !["BFL_API_KEY"] = Str(<<>>)],
            [NoEnv EXCEPT !["BFL_API_KEY"] = KEY_ENV]}
JobFiles == {NoEnv, [NoEnv EXCEPT !["BFL_API_KEY"] = KEY_FILE]}

JobPayloads == {[prompt |-> Str(<<"a", WS, "cat">>), seed |-> None]}

\* No node adapter is executing: the client is used directly.
NoNode == [name |-> "none"]
NoReturn == [kind |-> "none"]
NotCalled == [kind |-> "none"]

JobStart ==
    /\ instance = None
    /\ pc = "init"
    /\ timeout = NotYet
    /\ poll_interval = NotYet
    /\ headers = None
    /\ http = NoRequest
    /\ post_resp = None
    /\ get_resp = None
    /\ initial = None
    /\ final = None
    /\ now = 0
    /\ start_time = NotYet
    /\ last_status = None
    /\ printed = FALSE
    /\ outcome = NoOutcome
    /\ nPost = 0
    /\ nGet = 0
    /\ nSleep = 0
    /\ warned = {}
    /\ node = NoNode
    /\ node_ret = NoReturn
    /\ download = NoRequest
    /\ fn_args = None
    /\ fn_ret = NotCalled

Init ==
    /\ environ \in JobEnvs
    /\ config_file \in JobFiles
    /\ payload \in JobPayloads
    /\ JobStart

Next ==
    \/ Flux2APIInit(0..MaxTimeout, 0..MaxInterval)
    \/ SubmitRequest
    \/ PollCheck
    \/ PollResponse
    \/ Sleep

Spec == Init /\ [][Next]_vars

\* The same client when the only API key to be found is the placeholder of
\* the shipped config.ini, bare in the environment or padded in the file.
PADDED_PLACEHOLDER == Str(<<WS, "<your_bfl_api_key_here>", "\n">>)

KeyInit ==
    /\ environ \in {NoEnv, [NoEnv EXCEPT !["BFL_API_KEY"] = PLACEHOLDER]}
    /\ config_file = [NoEnv EXCEPT !["BFL_API_KEY"] = PADDED_PLACEHOLDER]
    /\ payload \in JobPayloads
    /\ JobStart

KeySpec == KeyInit /\ [][Next]_vars

\* The same client when every sleep advances the clock (poll_interval >= 1);
\* the calling thread is single and blocking, so each step it can take is
\* taken.
LiveNext ==
    \/ Flux2APIInit(0..MaxTimeout, 1..MaxInterval)
    \/ SubmitRequest
    \/ PollCheck
    \/ PollResponse
    \/ Sleep

LiveSpec == Init /\ [][LiveNext]_vars /\ WF_vars(LiveNext)

-----------------------------------------------------------------------------
(* submit_request over payload mappings *)

Chunks == {" ", "\t", "a"}

Texts == UNION {[1..n -> Chunks] : n \in 0..MaxStrLen}

PayloadValues ==
    {Missing, None, PyInt(0), PyInt(7)} \cup {Str(c) : c \in Texts}

\* A client built with the default timeout and poll_interval and a key from
\* the environment, about to submit any payload over two fields.
PayloadInit ==
    /\ environ = [NoEnv EXCEPT !["BFL_API_KEY"] = KEY_ENV]
    /\ config_file = NoEnv
    /\ instance = Initialize(environ, config_file).inst
    /\ pc = "constructed"
    /\ timeout = 600
    /\ poll_interval = 1
    /\ headers = Headers(KEY_ENV)
    /\ payload \in [prompt : PayloadValues, seed : PayloadValues]
    /\ http = NoRequest
    /\ post_resp = None
    /\ get_resp = None
    /\ initial = None
    /\ final = None
    /\ now = 0
    /\ start_time = NotYet
    /\ last_status = None
    /\ printed = FALSE
    /\ outcome = NoOutcome
    /\ nPost = 0
    /\ nGet = 0
    /\ nSleep = 0
    /\ warned = {}
    /\ node = NoNode
    /\ node_ret = NoReturn
    /\ download = NoRequest
    /\ fn_args = None
    /\ fn_ret = NotCalled

PayloadNext == SubmitRequest

PayloadSpec == PayloadInit /\ [][PayloadNext]_vars

-----------------------------------------------------------------------------
(* Flux2Config() over environments and config files *)

EnvValues == {Missing, Str(<<>>), Str(<<"from-env">>)}
FileValues == {Missing, Str(<<>>), Str(<<"from-file">>)}

\* Flux2Config(): any caller constructing the configuration object.
Flux2ConfigCall ==
    /\ LET c == Flux2ConfigNew(instance, environ, config_file)
       IN  /\ instance' = c.inst
           /\ environ' = c.env
           /\ warned' = warned \cup c.log
    /\ UNCHANGED <<config_file, pc, jobVars, extVars>>

CfgInit ==
    /\ environ \in [EnvNames -> EnvValues]
    /\ config_file \in [EnvNames -> FileValues]
    /\ payload = [prompt |-> Str(<<"a">>), seed |-> None]
    /\ JobStart

\* Code outside this package changes one of the BFL_* environment variables.
EnvChange ==
    /\ \E n \in EnvNames, v \in EnvValues : environ' = [environ EXCEPT ![n] = v]
    /\ environ' # environ
    /\ UNCHANGED <<config_file, instance, pc, jobVars, warned, extVars>>

CfgNext == Flux2ConfigCall \/ EnvChange

CfgSpec == CfgInit /\ [][CfgNext]_vars

-----------------------------------------------------------------------------
(* Helper functions called on their own *)

\* Nothing else is going on while a helper is evaluated.
HelperStart ==
    /\ environ = NoEnv
    /\ config_file = NoEnv
    /\ payload \in JobPayloads
    /\ instance = None
    /\ pc = "init"
    /\ timeout = NotYet
    /\ poll_interval = NotYet
    /\ headers = None
    /\ http = NoRequest
    /\ post_resp = None
    /\ get_resp = None
    /\ initial = None
    /\ final = None
    /\ now = 0
    /\ start_time = NotYet
    /\ last_status = None
    /\ printed = FALSE
    /\ outcome = NoOutcome
    /\ nPost = 0
    /\ nGet = 0
    /\ nSleep = 0
    /\ warned = {}
    /\ node = NoNode
    /\ node_ret = NoReturn
    /\ download = NoRequest
    /\ fn_ret = NotCalled

helperFrame == <<environ, config_file, instance, pc, timeout, poll_interval,
                 headers, payload, http, post_resp, get_resp, initial, final,
                 now, start_time, last_status, printed, outcome, nPost, nGet,
                 nSleep, warned, node, node_ret, fn_args>>

-----------------------------------------------------------------------------
(* _validate_resolution (flux2_node.py and flux2_flex_node.py, identical) *)

MIN_DIM == 64
MAX_DIM == 2048
DIM_STEP == 16

\* The body of the loop of _validate_resolution for one dimension: the error
\* message, or None when the loop goes on.
DimError(dim_name, dim) ==
    IF dim <= 0 THEN None
    ELSE IF dim % DIM_STEP # 0
    THEN Str(<<dim_name, "must be a multiple of 16", ToString(dim)>>)
    ELSE IF dim < MIN_DIM \/ dim > MAX_DIM
    THEN Str(<<dim_name, "must be between 64 and 2048 pixels", ToString(dim)>>)
    ELSE None

ValidateResolutionNever(width, height) == None

\* _validate_resolution
ValidateResolution(width, height) ==
    IF DimError("width", width) # None THEN DimError("width", width)
    ELSE DimError("height", height)

Dims == {-16, 0, 8, 16, 64, 72, 1024, 2048, 2064}

ValidateCall ==
    /\ fn_ret = NotCalled
    /\ fn_ret' = Returned(ValidateResolution(fn_args.width, fn_args.height))
    /\ UNCHANGED <<helperFrame, download>>

ResInit ==
    /\ fn_args \in [width : Dims, height : Dims]
    /\ HelperStart

ResSpec == ResInit /\ [][ValidateCall]_vars

-----------------------------------------------------------------------------
(* merge_reference_images *)

\* The last slot merge_reference_images fills: `if idx > 8: break`
LAST_SLOT == 8

\* The reference inputs of the flex edit node, input_image_2..input_image_10
MaxExtras == 9

ImageKey(idx) ==
    IF idx = 1 THEN "input_image" ELSE "input_image_" \o ToString(idx)

ImageKeys == {ImageKey(i) : i \in 1..(MaxExtras + 1)}

StoredAsGiven(image) == image

\* merge_reference_images: the value stored for an extra, `image.strip()`
StoredValue(image) == Str(Strip(image.s))

\* The loop of merge_reference_images from position idx on.
RECURSIVE MergeLoop(_, _, _)
MergeLoop(acc, additional_images, idx) ==
    IF idx - 1 > Len(additional_images) THEN acc
    ELSE IF idx > LAST_SLOT THEN acc
    ELSE LET image == additional_images[idx - 1]
         IN  MergeLoop(IF Truthy(image) /\ Strip(image.s) # <<>>
                       THEN [acc EXCEPT ![ImageKey(idx)] = StoredValue(image)]
                       ELSE acc,
                       additional_images, idx + 1)

\* merge_reference_images
MergeReferenceImages(main_image, additional_images) ==
    LET empty == [k \in ImageKeys |-> Missing]
        start == IF Truthy(main_image)
                 THEN [empty EXCEPT !["input_image"] = main_image]
                 ELSE empty
    IN  MergeLoop(start, additional_images, 2)

ExtraValues == {Str(<<>>), Str(<<WS>>), Str(<<WS, "img">>)}
MainValues == {Str(<<>>), Str(<<"base">>)}

MergeCall ==
    /\ fn_ret = NotCalled
    /\ fn_ret' = Returned(MergeReferenceImages(fn_args.main_image,
                                               fn_args.additional_images))
    /\ UNCHANGED <<helperFrame, download>>

MergeInit ==
    /\ fn_args \in [main_image : MainValues,
                     additional_images :
                         UNION {[1..n -> ExtraValues] : n \in 0..MaxExtras}]
    /\ HelperStart

MergeSpec == MergeInit /\ [][MergeCall]_vars

-----------------------------------------------------------------------------
(* _blank_image_tensor and download_image_to_tensor *)

MaxSide == 2

\* A float tensor: its shape and what fills it.
Tensor(shape, data) == [t |-> "tensor", shape |-> shape, data |-> data]

BLANK_SIDE == 512
RGB_CHANNELS == 3
DOWNLOAD_TIMEOUT == 30

BlankImageTensorNoBatch(width, height) ==
    Tensor(<<height, width, RGB_CHANNELS>>, "zeros")

\* _blank_image_tensor
BlankImageTensor(width, height) ==
    Tensor(<<1, height, width, RGB_CHANNELS>>, "zeros")

\* Bytes that PIL cannot open.
NotImage == [t |-> "notimage"]

ImageModes == {"RGB", "L", "RGBA"}

\* What the bytes of a response may be.
ImageContents ==
    {NotImage} \cup [t : {"image"}, height : 1..MaxSide, width : 1..MaxSide,
                     mode : ImageModes]

\* requests.get raised before any response arrived.
NoDownload == [code |-> 0, content |-> NotImage]

DownloadCodes == {200, NOT_MODIFIED, 404}

DownloadResponses ==
    {NoDownload} \cup [code : DownloadCodes, content : ImageContents]

\* Image.open(...).convert("RGB") followed by np.array and [None, ...]
DecodeToTensor(content) ==
    Tensor(<<1, content.height, content.width, RGB_CHANNELS>>, "pixels")

\* The try block of download_image_to_tensor raises.
DownloadFailed(resp) ==
    \/ resp = NoDownload
    \/ RaisesForStatus(resp.code)
    \/ resp.content = NotImage

\* The value download_image_to_tensor returns once its request is answered.
DownloadResult(resp) ==
    IF DownloadFailed(resp) THEN BlankImageTensor(BLANK_SIDE, BLANK_SIDE)
    ELSE DecodeToTensor(resp.content)

DownloadRequest(url) ==
    [method |-> "GET", url |-> url, timeout |-> DOWNLOAD_TIMEOUT,
     resp |-> None]

\* download_image_to_tensor up to the request.
DownloadEnter ==
    /\ fn_ret = NotCalled
    /\ download = NoRequest
    /\ IF ~Truthy(fn_args.url)
       THEN /\ fn_ret' = Returned(BlankImageTensor(BLANK_SIDE, BLANK_SIDE))
            /\ UNCHANGED download
       ELSE /\ download' = DownloadRequest(fn_args.url)
            /\ UNCHANGED fn_ret
    /\ UNCHANGED helperFrame

\* download_image_to_tensor from the answer of its request on.
DownloadResponse ==
    /\ fn_ret = NotCalled
    /\ download # NoRequest
    /\ \E resp \in DownloadResponses :
          /\ download' = [download EXCEPT !.resp = resp]
          /\ fn_ret' = Returned(DownloadResult(resp))
          /\ warned' = IF DownloadFailed(resp)
                       THEN warned \cup {"download failed"}
                       ELSE warned
    /\ UNCHANGED <<environ, config_file, instance, pc, timeout, poll_interval,
                   headers, payload, http, post_resp, get_resp, initial, final,
                   now, start_time, last_status, printed, outcome, nPost, nGet,
                   nSleep, node, node_ret, fn_args>>

UrlValues == {None, Str(<<>>), Str(<<WS>>), SAMPLE_URL,
              Str(<<"https://example.org/a.png">>)}

DownloadInit ==
    /\ fn_args \in [url : UrlValues]
    /\ HelperStart

DownloadNext == DownloadEnter \/ DownloadResponse

DownloadSpec == DownloadInit /\ [][DownloadNext]_vars

-----------------------------------------------------------------------------
(* image_tensor_to_base64 *)

MaxRank == 5

\* Sizes of the dimensions of the tensors passed in (1, 3 or 4 channels).
DimSizes == {1, 3, 4}

Shapes == UNION {[1..n -> DimSizes] : n \in 0..MaxRank}

\* An input tensor: data names the part of the caller's tensor it holds, as
\* the indices applied to it.
InputTensors == {Tensor(sh, <<>>) : sh \in Shapes}

Formats == {"PNG", "JPEG"}

Ndim(image) == Len(image.shape)

LastOfBatch(image) ==
    Tensor(Tail(image.shape), Append(image.data, image.shape[1] - 1))

\* image[0]
FirstOfBatch(image) == Tensor(Tail(image.shape), Append(image.data, 0))

ValueError(m) == [type |-> "ValueError", msg |-> m]

\* PIL refuses to write an image with an alpha channel as JPEG.
CannotWrite(image, format) == image.shape[3] = 4 /\ format = "JPEG"

\* The base64 text of the picture: names the format and the part encoded.
Encoded(image, format) ==
    Str(<<"base64", format, ToString(image.data),
          ToString(image.shape[1]), ToString(image.shape[2])>>)

\* image_tensor_to_base64
ImageTensorToBase64(image, format) ==
    IF image = None THEN Raised(ValueError("Image tensor is None"))
    ELSE LET img == IF Ndim(image) = 4 THEN FirstOfBatch(image) ELSE image
         IN  IF Ndim(img) # 3
             THEN Raised(ValueError("Expected image tensor with 3 dimensions"))
             ELSE IF CannotWrite(img, format)
             THEN Raised([type |-> "OSError"])
             ELSE Returned(Encoded(img, format))

ToBase64Call ==
    /\ fn_ret = NotCalled
    /\ fn_ret' = ImageTensorToBase64(fn_args.image, fn_args.format)
    /\ UNCHANGED <<helperFrame, download>>

TensorInit ==
    /\ fn_args \in [image : {None} \cup InputTensors, format : Formats]
    /\ HelperStart

TensorSpec == TensorInit /\ [][ToBase64Call]_vars

-----------------------------------------------------------------------------
(* The node adapters: generate / edit of the pro and the flex nodes *)

NodeNames == {"pro_t2i", "pro_edit", "flex_t2i", "flex_edit"}

IsFlex(name) == name \in {"flex_t2i", "flex_edit"}
IsEdit(name) == name \in {"pro_edit", "flex_edit"}

\* The extra reference inputs of the pro edit node, input_image_2..8
PRO_EXTRAS == 7

\* Flux2API.__init__(self, timeout=600, poll_interval=1.0): one tick of the
\* clock of a node run is the default timeout, and the default poll interval
\* is too short to advance it.
DEFAULT_TIMEOUT == 1
DEFAULT_POLL_INTERVAL == 0

\* The keyword arguments Flux2API.__init__ takes.
Flux2APIParams == {"timeout", "poll_interval"}

\* The keyword arguments the node passes to Flux2API(...).
ClientKwargs(name) == IF IsFlex(name) THEN {"base_url"} ELSE {}

\* _blank_image()
BlankImage == BlankImageTensor(BLANK_SIDE, BLANK_SIDE)

\* str(exc)
ExcText(exc) == exc.type

\* f"Error{text}{detail}"
ErrorMessage(text, detail) == Str(<<"Error", text>> \o detail)

\* resolve_image of the edit nodes: a URL wins over a tensor (pro only), a
\* tensor that cannot be converted gives None.
ResolveImage(source_tensor, source_url) ==
    IF Truthy(source_url) /\ Strip(source_url.s) # <<>>
    THEN Str(Strip(source_url.s))
    ELSE IF source_tensor # None
    THEN LET r == ImageTensorToBase64(source_tensor, "PNG")
         IN  IF r.kind = "raise" THEN None ELSE r.value
    ELSE None

\* resolve_image printed its warning.
ResolveWarns(source_tensor, source_url) ==
    /\ ~(Truthy(source_url) /\ Strip(source_url.s) # <<>>)
    /\ source_tensor # None
    /\ ImageTensorToBase64(source_tensor, "PNG").kind = "raise"

\* `resolved if resolved else ""`
OrEmpty(resolved) == IF Truthy(resolved) THEN resolved ELSE Str(<<>>)

BaseImageValue(n) == ResolveImage(n.input_image, n.input_image_url)

AdditionalImages(n) ==
    [i \in 1..Len(n.refs) |-> OrEmpty(ResolveImage(n.refs[i].tensor,
                                                  n.refs[i].url))]

CommonPayloadFalsySeed(n) ==
    [prompt |-> n.prompt,
     width |-> IF n.width > 0 THEN PyInt(n.width) ELSE None,
     height |-> IF n.height > 0 THEN PyInt(n.height) ELSE None,
     seed |-> IF n.seed <= 0 THEN None ELSE PyInt(n.seed),
     safety_tolerance |-> PyInt(n.safety_tolerance),
     output_format |-> n.output_format]

\* The fields every node puts in its payload.
CommonPayload(n) ==
    [prompt |-> n.prompt,
     width |-> IF n.width > 0 THEN PyInt(n.width) ELSE None,
     height |-> IF n.height > 0 THEN PyInt(n.height) ELSE None,
     seed |-> IF n.seed < 0 THEN None ELSE PyInt(n.seed),
     safety_tolerance |-> PyInt(n.safety_tolerance),
     output_format |-> n.output_format]

FlexPayload(n) == [guidance |-> n.guidance, steps |-> PyInt(n.steps)]

\* The payload dict of generate / edit.
NodePayload(n) ==
    LET refs == IF IsEdit(n.name)
                THEN MergeReferenceImages(BaseImageValue(n),
                                          AdditionalImages(n))
                ELSE <<>>
        flex == IF IsFlex(n.name) THEN FlexPayload(n) ELSE <<>>
    IN  CommonPayload(n) @@ refs @@ flex

\* The `except Exception` clause of generate / edit, and the return for a
\* run without an image URL: pro returns the message and a blank image, flex
\* prints the message and returns the blank image.
ErrorReturn(name, text, detail) ==
    IF IsFlex(name)
    THEN Returned(<<BlankImage>>)
    ELSE Returned(<<ErrorMessage(text, detail), BlankImage>>)

ErrorPrinted(name, text) ==
    IF IsFlex(name) THEN {"Error" \o text} ELSE {}

Verb(name) == IF IsEdit(name) THEN " editing with FLUX.2" ELSE " generating with FLUX.2"
ExceptText(name) == Verb(name) \o (IF IsFlex(name) THEN " flex:" ELSE ":")

NoBaseText(name) ==
    IF IsFlex(name) THEN ": Provide a base image."
    ELSE ": Provide a base image tensor or URL."

NoUrlText(name) ==
    IF IsFlex(name) THEN ": FLUX.2 flex response did not include an image URL."
    ELSE ": FLUX.2 response did not include an image URL."

nodeFrame == <<timeout, poll_interval, headers, http, post_resp, get_resp,
               initial, final, now, start_time, last_status, printed, nPost,
               nGet, nSleep, node, fn_args, fn_ret, config_file>>

\* generate / edit from the call to the construction of the client.
NodeEnter ==
    /\ pc = "node_enter"
    /\ LET resolution_error == ValidateResolution(node.width, node.height)
           warn == IF IsEdit(node.name)
                      /\ (\/ ResolveWarns(node.input_image, node.input_image_url)
                          \/ \E i \in 1..Len(node.refs) :
                                ResolveWarns(node.refs[i].tensor,
                                             node.refs[i].url))
                   THEN {"Warning: failed to convert image tensor to base64"}
                   ELSE {}
       IN  IF Truthy(resolution_error)
           THEN /\ node_ret' = Returned(<<ErrorMessage(":", resolution_error.s)>>)
                /\ pc' = "node_done"
                /\ UNCHANGED <<cfgVars, payload, outcome, warned, download>>
           ELSE IF IsEdit(node.name) /\ ~Truthy(BaseImageValue(node))
           THEN /\ node_ret' = Returned(<<ErrorMessage(NoBaseText(node.name), <<>>)>>)
                /\ pc' = "node_done"
                /\ warned' = warned \cup
                       (IF ResolveWarns(node.input_image, node.input_image_url)
                        THEN {"Warning: failed to convert image tensor to base64"}
                        ELSE {})
                /\ UNCHANGED <<cfgVars, payload, outcome, download>>
           ELSE IF ClientKwargs(node.name) \subseteq Flux2APIParams
           THEN /\ payload' = NodePayload(node)
                /\ pc' = "init"
                /\ warned' = warned \cup warn
                /\ UNCHANGED <<cfgVars, outcome, node_ret, download>>
           ELSE \* cfg = Flux2Config(), then the call Flux2API(base_url=...)
                \* fails with a TypeError, caught by `except Exception`
                LET c == Flux2ConfigNew(instance, environ, config_file)
                    exc == [type |-> "TypeError"]
                IN  /\ instance' = c.inst
                    /\ environ' = c.env
                    /\ outcome' = Raised(exc)
                    /\ node_ret' = ErrorReturn(node.name, ExceptText(node.name),
                                               <<ExcText(exc)>>)
                    /\ warned' = warned \cup warn \cup c.log
                                   \cup ErrorPrinted(node.name,
                                                     ExceptText(node.name))
                    /\ pc' = "node_done"
                    /\ UNCHANGED <<payload, download>>
    /\ UNCHANGED nodeFrame

\* generate / edit once Flux2API() or client.run(payload) has ended, up to
\* the request of download_image_to_tensor.
NodeAfterRun ==
    /\ pc = "done"
    /\ node # NoNode
    /\ IF outcome.kind = "raise"
       THEN /\ node_ret' = ErrorReturn(node.name, ExceptText(node.name),
                                       <<ExcText(outcome.exc)>>)
            /\ warned' = warned \cup ErrorPrinted(node.name,
                                                  ExceptText(node.name))
            /\ pc' = "node_done"
            /\ UNCHANGED download
       ELSE IF ~Truthy(outcome.value.sample)
       THEN /\ node_ret' = ErrorReturn(node.name, NoUrlText(node.name), <<>>)
            /\ warned' = warned \cup ErrorPrinted(node.name,
                                                  NoUrlText(node.name))
            /\ pc' = "node_done"
            /\ UNCHANGED download
       ELSE /\ download' = DownloadRequest(outcome.value.sample)
            /\ pc' = "download_wait"
            /\ UNCHANGED <<node_ret, warned>>
    /\ UNCHANGED <<cfgVars, payload, outcome, nodeFrame>>

\* The answers to the download of a node run.
NodeDownloadResponses ==
    {NoDownload,
     [code |-> 404, content |-> NotImage],
     [code |-> 200, content |-> NotImage],
     [code |-> 200, content |-> [t |-> "image", height |-> 1, width |-> 1,
                                 mode |-> "RGB"]]}

\* download_image_to_tensor(image_url) answered, and the final return.
NodeDownload ==
    /\ pc = "download_wait"
    /\ \E resp \in NodeDownloadResponses :
          LET image_url == outcome.value.sample
              image_tensor == DownloadResult(resp)
          IN  /\ download' = [download EXCEPT !.resp = resp]
              /\ warned' = IF DownloadFailed(resp)
                           THEN warned \cup {"download failed"}
                           ELSE warned
              /\ node_ret' = IF IsFlex(node.name)
                             THEN Returned(<<image_tensor>>)
                             ELSE Returned(<<image_url, image_tensor>>)
    /\ pc' = "node_done"
    /\ UNCHANGED <<cfgVars, payload, outcome, nodeFrame>>

CUSTOM_BASE == Str(<<"https://proxy.example/pro">>)
CUSTOM_FLEX_BASE == Str(<<"https://proxy.example/flex">>)

NodeEnvs ==
    {NoEnv,
     [NoEnv EXCEPT !["BFL_API_KEY"] = KEY_ENV],
     [n \in EnvNames |->
        CASE n = "BFL_API_KEY" -> KEY_ENV
          [] n = "BFL_BASE_URL" -> CUSTOM_BASE
          [] n = "BFL_FLEX_BASE_URL" -> CUSTOM_FLEX_BASE]}

GoodTensor == Tensor(<<1, 1, 1, 3>>, <<>>)
BadTensor == Tensor(<<1, 1>>, <<>>)

NoRef == [tensor |-> None, url |-> Str(<<>>)]

\* A valid call of each node with the defaults of its optional inputs.
TypicalInput(name) ==
    [name |-> name,
     prompt |-> Str(<<"a", WS, "cat">>),
     width |-> 1024,
     height |-> 1024,
     seed |-> -1,
     safety_tolerance |-> 2,
     output_format |-> Str(<<"jpeg">>),
     guidance |-> Str(<<"4.5">>),
     steps |-> 50,
     input_image |-> IF IsEdit(name) THEN GoodTensor ELSE None,
     input_image_url |-> Str(<<>>),
     refs |-> IF IsEdit(name)
              THEN [i \in 1..(IF IsFlex(name) THEN MaxExtras ELSE PRO_EXTRAS)
                      |-> NoRef]
              ELSE <<>>]

\* The typical call with one input changed.
Variations(n) ==
    {n,
     [n EXCEPT !.width = 0],
     [n EXCEPT !.width = 8],
     [n EXCEPT !.seed = 0, !.safety_tolerance = 0],
     [n EXCEPT !.width = 0, !.height = 0, !.seed = 0, !.safety_tolerance = 0]}
      \cup (IF IsEdit(n.name)
            THEN {[n EXCEPT !.input_image = None],
                  [n EXCEPT !.input_image = BadTensor],
                  [n EXCEPT !.refs[Len(n.refs)] = [tensor |-> GoodTensor,
                                                   url |-> Str(<<>>)]],
                  [n EXCEPT !.refs[1] = [tensor |-> BadTensor,
                                         url |-> Str(<<>>)]]}
            ELSE {})
      \cup (IF n.name = "pro_edit"
            THEN {[n EXCEPT !.input_image = None,
                            !.input_image_url =
                                Str(<<WS, "https://in.example/a.png">>)]}
            ELSE {})

NodeInputs == UNION {Variations(TypicalInput(name)) : name \in NodeNames}

NodeInit ==
    /\ environ \in NodeEnvs
    /\ config_file = NoEnv
    /\ node \in NodeInputs
    /\ pc = "node_enter"
    /\ payload = None
    /\ instance = None
    /\ timeout = NotYet
    /\ poll_interval = NotYet
    /\ headers = None
    /\ http = NoRequest
    /\ post_resp = None
    /\ get_resp = None
    /\ initial = None
    /\ final = None
    /\ now = 0
    /\ start_time = NotYet
    /\ last_status = None
    /\ printed = FALSE
    /\ outcome = NoOutcome
    /\ nPost = 0
    /\ nGet = 0
    /\ nSleep = 0
    /\ warned = {}
    /\ node_ret = NoReturn
    /\ download = NoRequest
    /\ fn_args = None
    /\ fn_ret = NotCalled

NodeNext ==
    \/ NodeEnter
    \/ Flux2APIInit({DEFAULT_TIMEOUT}, {DEFAULT_POLL_INTERVAL})
    \/ SubmitRequest
    \/ PollCheck
    \/ PollResponse
    \/ Sleep
    \/ NodeAfterRun
    \/ NodeDownload

NodeSpec == NodeInit /\ [][NodeNext]_vars

-----------------------------------------------------------------------------
(* Vocabulary of the properties *)

TerminalStatusNames ==
    {Str(<<"Ready">>), Str(<<"Error">>), Str(<<"Failed">>),
     Str(<<"Content", WS, "Moderated">>), Str(<<"Request", WS, "Moderated">>)}

FailureStatusNames == TerminalStatusNames \ {Str(<<"Ready">>)}

\* A status response has been received and decoded.
GotStatus == get_resp # None /\ TransportError(get_resp) = None

\* The status it carried (None when the field is absent).
SeenStatus == Get(get_resp.body, "status", None)

Submitted == initial # None

IsTimeout(o) ==
    o.kind = "raise" /\ o.exc.type = "Flux2APIError" /\ o.exc.msg = "timed out"

IsGenerationFailure(o) ==
    o.kind = "raise" /\ o.exc.type = "Flux2APIError" /\ o.exc.msg = "failed"

IsTransportError(o) ==
    /\ o.kind = "raise"
    /\ o.exc.type \in {"ConnectionError", "HTTPError", "JSONDecodeError"}

IsProtocolError(o) ==
    /\ o.kind = "raise"
    /\ o.exc.type = "Flux2APIError"
    /\ o.exc.msg \in {"no polling_url", "no request id"}

IsConfigError(o) ==
    /\ o.kind = "raise"
    /\ o.exc.type = "Flux2APIError"
    /\ o.exc.msg = "BFL_API_KEY is not set"

Elapsed == now - start_time

-----------------------------------------------------------------------------
(* C1 *)

\* C1 as stated: whenever polling has ended and no terminal status arrived
\* before `timeout` seconds had elapsed since polling began (and no request
\* failed in transport), poll_result has failed with the timeout error.
C1_AsStated ==
    (/\ pc = "done"
     /\ Submitted
     /\ get_resp # None => TransportError(get_resp) = None
     /\ ~(/\ get_resp # None
          /\ SeenStatus \in TerminalStatusNames
          /\ Elapsed < timeout))
        => IsTimeout(outcome)

\* C1 (amended): when every status response poll_result received carried a
\* non-terminal status, poll_result ends with the timeout error; and every
\* status request is issued at a loop check whose elapsed time is below
\* `timeout`, so none is issued once the deadline has been reached.
C1_TimeoutWhenNoTerminalResponse ==
    /\ (/\ pc = "done"
        /\ Submitted
        /\ get_resp # None => (GotStatus /\ SeenStatus \notin TerminalStatusNames))
          => IsTimeout(outcome)
    /\ http.method = "GET" => (http.at - start_time) < timeout
    /\ (pc \in {"poll_wait", "sleep"} \/ (pc = "done" /\ get_resp # None))
          => http.method = "GET"

\* A poll that timed out after two status requests, the last of which was
\* answered after the deadline with a non-terminal status.
C1_Witness ==
    /\ pc = "done"
    /\ IsTimeout(outcome)
    /\ nGet >= 2
    /\ GotStatus
    /\ SeenStatus \notin TerminalStatusNames

-----------------------------------------------------------------------------
(* C2 *)

\* C2: once a status response carries 'Ready', poll_result has returned that
\* very payload and the call is over: no sleep and no status request follows
\* it, whatever poll_interval is.
C2_ReadyReturnsImmediately ==
    [][/\ (/\ pc = "poll_wait"
           /\ get_resp' # None
           /\ TransportError(get_resp') = None
           /\ Get(get_resp'.body, "status", None) = Str(<<"Ready">>))
             => /\ final' = get_resp'.body
                /\ pc' = "done"
                /\ nSleep' = nSleep
                /\ nGet' = nGet
                /\ http' = http
       /\ pc = "done" => (nSleep' = nSleep /\ nGet' = nGet /\ http' = http)]_vars

\* A Ready response that came after an earlier non-terminal one, with a
\* positive poll_interval.
C2_Witness ==
    /\ pc = "done"
    /\ GotStatus
    /\ SeenStatus = Str(<<"Ready">>)
    /\ final = get_resp.body
    /\ poll_interval > 0
    /\ nSleep >= 1

-----------------------------------------------------------------------------
(* C3 *)

\* C3: once a status response carries 'Error', 'Failed', 'Content Moderated'
\* or 'Request Moderated', polling has stopped with a Flux2APIError that
\* carries that status and the full response payload, and no status request
\* follows.
C3_FailureStatusRaises ==
    [][/\ (/\ pc = "poll_wait"
           /\ get_resp' # None
           /\ TransportError(get_resp') = None
           /\ Get(get_resp'.body, "status", None) \in FailureStatusNames)
             => /\ pc' = "done"
                /\ outcome' =
                     Raised([type |-> "Flux2APIError", msg |-> "failed",
                             status |-> get_resp'.body.status,
                             payload |-> get_resp'.body])
                /\ nGet' = nGet
                /\ http' = http
       /\ pc = "done" => (nGet' = nGet /\ http' = http)]_vars

\* 'Request Moderated' arriving after an earlier non-terminal status.
C3_Witness ==
    /\ pc = "done"
    /\ GotStatus
    /\ SeenStatus = Str(<<"Request", WS, "Moderated">>)
    /\ IsGenerationFailure(outcome)
    /\ nSleep >= 1

-----------------------------------------------------------------------------
(* C4 *)

IsSuccess(o) == o.kind = "return"

\* C4 as stated: a job whose submission was accepted ends in success,
\* generation failure or timeout, and in nothing else.
C4_AsStated ==
    (pc = "done" /\ Submitted)
        => (IsSuccess(outcome) \/ IsGenerationFailure(outcome)
              \/ IsTimeout(outcome))

\* C4 (amended): provided the clock advances on every sleep, every run ends,
\* with exactly one outcome that never changes afterwards: success,
\* generation failure, timeout, or the error of the request step that failed
\* (a transport or protocol error of the submit, a transport error of a status
\* request, or the AttributeError of reading a Ready payload whose result is
\* not an object).  There is one submit, and status requests only follow an
\* accepted submit.
C4_Lifecycle ==
    /\ <>(pc = "done")
    /\ [](pc = "done" <=> outcome # NoOutcome)
    /\ []((pc = "done" /\ nPost > 0)
            => \/ IsSuccess(outcome)
               \/ IsGenerationFailure(outcome)
               \/ IsTimeout(outcome)
               \/ IsTransportError(outcome)
               \/ IsProtocolError(outcome)
               \/ (outcome.kind = "raise"
                     /\ outcome.exc.type = "AttributeError"))
    /\ [](nPost <= 1 /\ (nGet > 0 => (nPost = 1 /\ Submitted)))
    /\ [][outcome # NoOutcome => outcome' = outcome]_vars

\* A job that ended in a transport error of its second status request.
C4_Witness ==
    /\ pc = "done"
    /\ Submitted
    /\ nGet >= 2
    /\ IsTransportError(outcome)

-----------------------------------------------------------------------------
(* C5 *)

\* The submit response was rejected: transport failure or a missing field.
SubmitFailed ==
    /\ post_resp # None
    /\ \/ TransportError(post_resp) # None
       \/ ~Has(post_resp.body, "polling_url")
       \/ ~Has(post_resp.body, "id")

\* C5: run submits before any status request; a failed submit ends the call
\* with the submit's own error and without any status request; a failed
\* status request ends it with that request's error; and a returned result
\* holds the sample URL of the final poll payload, the cost of the submission
\* payload (None when absent) and both raw payloads.
C5_RunComposesSubmitAndPoll ==
    /\ http.method = "GET" => (post_resp # None /\ ~SubmitFailed)
    /\ SubmitFailed
         => /\ pc = "done"
            /\ nGet = 0
            /\ http.method = "POST"
            /\ (IsTransportError(outcome) \/ IsProtocolError(outcome))
            /\ TransportError(post_resp) # None
                 => outcome = Raised(TransportError(post_resp))
    /\ (get_resp # None /\ TransportError(get_resp) # None)
         => (pc = "done" /\ outcome = Raised(TransportError(get_resp)))
    /\ IsSuccess(outcome)
         => /\ GotStatus
            /\ outcome.value.request = post_resp.body
            /\ outcome.value.result = get_resp.body
            /\ outcome.value.cost =
                 (IF post_resp.body.cost = Missing THEN None
                  ELSE post_resp.body.cost)
            /\ outcome.value.sample =
                 (IF get_resp.body.result = Missing THEN None
                  ELSE IF get_resp.body.result.d.sample = Missing THEN None
                  ELSE get_resp.body.result.d.sample)

\* A successful run whose submission carried no cost and whose final payload
\* carried the sample URL.
C5_Witness ==
    /\ pc = "done"
    /\ IsSuccess(outcome)
    /\ post_resp.body.cost = Missing
    /\ outcome.value.cost = None
    /\ outcome.value.sample = SAMPLE_URL

-----------------------------------------------------------------------------
(* C6 *)

AllWhitespace(chunks) == \A i \in 1..Len(chunks) : chunks[i] \in {" ", "\t", "\n"}

\* A payload field that must be transmitted: present, not None, and not an
\* empty or all-whitespace string.
Transmittable(v) ==
    /\ v # Missing
    /\ v # None
    /\ ~(v.t = "str" /\ AllWhitespace(v.s))

\* C6: the JSON body of the POST holds exactly the payload's fields that are
\* neither None nor an empty or all-whitespace string, each with its value
\* unchanged, and the caller's payload mapping is never modified.
C6_BodyIsPayloadWithoutEmpties ==
    /\ [](http.method = "POST"
            => \A k \in DOMAIN payload :
                  http.json[k] = (IF Transmittable(payload[k]) THEN payload[k]
                                  ELSE Missing))
    /\ [][payload' = payload]_vars

\* A submitted payload with a blank prompt (dropped) and seed 0 (kept).
C6_Witness ==
    /\ http.method = "POST"
    /\ payload.prompt = Str(<<" ", "\t">>)
    /\ payload.seed = PyInt(0)
    /\ http.json.prompt = Missing
    /\ http.json.seed = PyInt(0)

-----------------------------------------------------------------------------
(* C7 *)

\* C7 as stated: every POST response whose status is not 2xx makes
\* submit_request fail with a transport error.
C7_AsStated ==
    (post_resp # None /\ ~(post_resp.code >= 200 /\ post_resp.code < 300))
        => (IsTransportError(outcome) /\ ~Submitted)

\* C7 (amended): submit_request fails with a transport error when
\* raise_for_status rejects the POST response (a 4xx or 5xx status), when no
\* response arrives or when its body is not JSON; with a protocol error when
\* the decoded body lacks polling_url or lacks id; and it returns the decoded
\* body only when both fields are present.
C7_SubmitErrors ==
    post_resp # None
        => /\ (post_resp.code >= 400 /\ post_resp.code < 600)
                => outcome = Raised([type |-> "HTTPError",
                                     code |-> post_resp.code])
           /\ (post_resp.code = 0 \/ post_resp.body = NotJson)
                => (IsTransportError(outcome) /\ ~Submitted)
           /\ (/\ post_resp.code \in 1..399
               /\ post_resp.body # NotJson
               /\ post_resp.body.polling_url = Missing)
                => outcome = Raised(Flux2APIError("no polling_url"))
           /\ (/\ post_resp.code \in 1..399
               /\ post_resp.body # NotJson
               /\ post_resp.body.polling_url # Missing
               /\ post_resp.body.id = Missing)
                => outcome = Raised(Flux2APIError("no request id"))
           /\ Submitted
                => /\ initial = post_resp.body
                   /\ post_resp.body.polling_url # Missing
                   /\ post_resp.body.id # Missing
           /\ (IsTransportError(outcome) \/ IsProtocolError(outcome) \/ Submitted)

\* A submission refused for its missing request id although the polling URL
\* was there.
C7_Witness ==
    /\ post_resp # None
    /\ post_resp.code = 200
    /\ post_resp.body # NotJson
    /\ post_resp.body.polling_url # Missing
    /\ post_resp.body.id = Missing
    /\ outcome = Raised(Flux2APIError("no request id"))

-----------------------------------------------------------------------------
(* C8 *)

\* C8: a status response with any status but 'Ready' and the four failure
\* statuses (an absent status included) leads to the sleep, and the sleep,
\* of at least poll_interval, leads back to the loop check, which issues the
\* next status request while the deadline is not reached; a changed status
\* prints a line and changes nothing else.
C8_OtherStatusKeepsPolling ==
    [][/\ (/\ pc = "poll_wait"
           /\ get_resp' # None
           /\ TransportError(get_resp') = None
           /\ Get(get_resp'.body, "status", None) \notin TerminalStatusNames)
             => /\ pc' = "sleep"
                /\ outcome' = outcome
                /\ http' = http
                /\ final' = final
                /\ printed' = (Get(get_resp'.body, "status", None) # last_status)
       /\ pc = "sleep"
             => /\ pc' = "poll_check"
                /\ now' >= now + poll_interval
                /\ outcome' = outcome
                /\ http' = http
       /\ (pc = "poll_check" /\ now - start_time < timeout)
             => /\ pc' = "poll_wait"
                /\ http'.method = "GET"
                /\ http'.at = now
                /\ outcome' = outcome]_vars

\* A second status response repeating the first status: nothing is printed
\* and the loop sleeps again.
C8_Witness ==
    /\ pc = "sleep"
    /\ nGet >= 2
    /\ nSleep >= 1
    /\ ~printed
    /\ SeenStatus = Str(<<"Pending">>)

-----------------------------------------------------------------------------
(* C9 *)

NonEmpty(v) == v.t = "str" /\ v.s # <<>>

Priority(from_env, from_file, default) ==
    IF NonEmpty(from_env) THEN from_env
    ELSE IF NonEmpty(from_file) THEN from_file
    ELSE default

\* C9: the first Flux2Config() resolves each setting to the non-empty
\* environment value, else the non-empty config-file value, else the default:
\* None for the API key, the pro and flex URLs for the base URLs.
C9_ResolutionPriority ==
    [][(instance = None /\ instance' # None)
          => /\ instance'.key =
                  Priority(environ["BFL_API_KEY"], config_file["BFL_API_KEY"],
                           None)
             /\ instance'.base_url =
                  Priority(environ["BFL_BASE_URL"], config_file["BFL_BASE_URL"],
                           Str(<<"https://api.bfl.ai/v1/flux-2-pro">>))
             /\ instance'.flex_base_url =
                  Priority(environ["BFL_FLEX_BASE_URL"],
                           config_file["BFL_FLEX_BASE_URL"],
                           Str(<<"https://api.bfl.ai/v1/flux-2-flex">>))]_vars

\* A resolved configuration whose key came from the file because the
\* environment variable was empty, whose pro URL came from the environment
\* although the file had one, and whose flex URL is the default.
C9_Witness ==
    /\ instance # None
    /\ environ["BFL_API_KEY"] = Str(<<>>)
    /\ instance.key = Str(<<"from-file">>)
    /\ config_file["BFL_BASE_URL"] = Str(<<"from-file">>)
    /\ instance.base_url = Str(<<"from-env">>)
    /\ instance.flex_base_url = Str(<<"https://api.bfl.ai/v1/flux-2-flex">>)

-----------------------------------------------------------------------------
(* C10 *)

\* C10: when the configuration resolved no API key, the construction of
\* Flux2API has failed with the configuration error and no HTTP request,
\* submit or status, has been issued.
C10_NoKeyNoRequest ==
    (instance # None /\ instance.key = None)
        => /\ pc = "done"
           /\ IsConfigError(outcome)
           /\ http = NoRequest
           /\ nPost = 0
           /\ nGet = 0
           /\ headers = None

\* A construction that failed although BFL_API_KEY was set, to the empty
\* string.
C10_Witness ==
    /\ pc = "done"
    /\ IsConfigError(outcome)
    /\ environ["BFL_API_KEY"] = Str(<<>>)

-----------------------------------------------------------------------------
(* C11 *)

\* C11: with the unreplaced placeholder as the resolved API key, the
\* resolution prints the placeholder warning and nothing fails: Flux2API is
\* constructed with the placeholder as x-key, the call does not end before
\* the submit request, and every request carries the placeholder as x-key.
C11_PlaceholderKeyOnlyWarns ==
    instance # None
        => /\ instance.key \in
                {Str(<<"<your_bfl_api_key_here>">>),
                 Str(<<WS, "<your_bfl_api_key_here>", "\n">>)}
           /\ "placeholder key" \in warned
           /\ ~IsConfigError(outcome)
           /\ headers # None
           /\ headers.x_key = instance.key
           /\ pc = "done" => nPost = 1
           /\ http.method # "none" => http.headers.x_key = instance.key

\* The submit request sent with the padded placeholder of the file as x-key.
C11_Witness ==
    /\ http.method = "POST"
    /\ http.headers.x_key = Str(<<WS, "<your_bfl_api_key_here>", "\n">>)
    /\ "placeholder key" \in warned

-----------------------------------------------------------------------------
(* C12 *)

\* C12: once the configuration is resolved, no later Flux2Config() and no
\* change of the environment alters the instance, prints a warning again or
\* changes what get_key, get_base_url and get_flex_base_url return.
C12_ResolvedOnce ==
    [][instance # None
          => /\ instance' = instance
             /\ warned' = warned
             /\ get_key(instance') = get_key(instance)
             /\ get_base_url(instance') = get_base_url(instance)
             /\ get_flex_base_url(instance') = get_flex_base_url(instance)]_vars

\* A resolved configuration that no longer matches the environment: the key
\* came from a variable that has since been unset, and the pro URL is the
\* default although the variable is now set.
C12_Witness ==
    /\ instance # None
    /\ instance.key = Str(<<"from-env">>)
    /\ environ["BFL_API_KEY"] = Missing
    /\ instance.base_url = Str(<<"https://api.bfl.ai/v1/flux-2-pro">>)
    /\ environ["BFL_BASE_URL"] = Str(<<"from-env">>)
    /\ config_file["BFL_BASE_URL"] = Missing

-----------------------------------------------------------------------------
(* C13 *)

\* A dimension the validator is to accept: 0, or a multiple of 16 within
\* [64, 2048].
AcceptableDim(dim) ==
    dim = 0 \/ (dim > 0 /\ dim % 16 = 0 /\ dim >= 64 /\ dim <= 2048)

\* C13: _validate_resolution returns no error exactly when both dimensions
\* are acceptable: 0 is accepted, a positive value that is not a multiple of
\* 16 is rejected, and every value outside [64, 2048] is rejected.
C13_ValidatorAcceptsExactlyValid ==
    fn_ret.kind = "return"
        => ((fn_ret.value = None)
              <=> (AcceptableDim(fn_args.width) /\ AcceptableDim(fn_args.height)))

-----------------------------------------------------------------------------
(* C14 *)

NonBlank(image) == image.s # <<>> /\ ~AllWhitespace(image.s)

\* C14: given up to 9 extras, merge_reference_images skips blank entries and
\* fills input_image_2 ... up to input_image_8 when 7 extras are passed (pro)
\* and up to input_image_10 when 9 are passed (flex).
C14_MergeCapsPerVariant ==
    fn_ret.kind = "return"
        => LET extras == fn_args.additional_images
               cap == IF Len(extras) <= 7 THEN 8 ELSE 10
           IN  \A i \in 1..MaxExtras :
                  (fn_ret.value[ImageKey(i + 1)] # Missing)
                      <=> (i <= Len(extras) /\ i + 1 <= cap /\ NonBlank(extras[i]))

-----------------------------------------------------------------------------
(* C16 *)

PlaceholderImage == Tensor(<<1, 512, 512, 3>>, "zeros")

\* C16 as stated: every answer whose status is not 2xx yields the
\* placeholder.
C16_AsStated ==
    (/\ fn_ret.kind = "return"
     /\ download # NoRequest
     /\ ~(download.resp.code >= 200 /\ download.resp.code < 300))
        => fn_ret.value = PlaceholderImage

\* C16 (amended): download_image_to_tensor never raises; it returns the black
\* 1x512x512x3 placeholder when the URL is empty (and then no request is
\* made), when no response arrives, when the status is 4xx or 5xx and when the
\* bytes cannot be decoded; otherwise it returns the decoded picture.
C16_DownloadNeverRaises ==
    /\ fn_ret.kind # "raise"
    /\ fn_ret.kind = "return"
         => /\ (fn_args.url = None \/ fn_args.url = Str(<<>>))
                 => (fn_ret.value = PlaceholderImage /\ download = NoRequest)
            /\ ~(fn_args.url = None \/ fn_args.url = Str(<<>>))
                 => /\ download.method = "GET"
                    /\ download.url = fn_args.url
                    /\ (\/ download.resp.code = 0
                        \/ download.resp.code >= 400
                        \/ download.resp.content = NotImage)
                         => fn_ret.value = PlaceholderImage
                    /\ (/\ download.resp.code \in 1..399
                        /\ download.resp.content # NotImage)
                         => fn_ret.value =
                              Tensor(<<1, download.resp.content.height,
                                       download.resp.content.width, 3>>,
                                     "pixels")

C16_Witness ==
    /\ fn_ret = Returned(PlaceholderImage)
    /\ download # NoRequest
    /\ download.resp.code = 200
    /\ download.resp.content = NotImage

-----------------------------------------------------------------------------
(* C17 *)

\* C17: image_tensor_to_base64 raises the validation error (ValueError) for a
\* null input and for every rank other than 3 and 4, never for rank 3 or 4;
\* and what it encodes of a rank-4 input is its first image only.
C17_RankValidation ==
    fn_ret # NotCalled
        => LET image == fn_args.image
               valid == image # None /\ Len(image.shape) \in {3, 4}
           IN  /\ (fn_ret.kind = "raise" /\ fn_ret.exc.type = "ValueError")
                    <=> ~valid
               /\ fn_ret.kind = "return"
                    => /\ Len(image.shape) = 3
                            => fn_ret.value.s[3] = ToString(<<>>)
                       /\ Len(image.shape) = 4
                            => /\ fn_ret.value.s[3] = ToString(<<0>>)
                               /\ fn_ret.value.s[4] = ToString(image.shape[2])
                               /\ fn_ret.value.s[5] = ToString(image.shape[3])

C17_Witness ==
    /\ fn_ret.kind = "return"
    /\ fn_args.image.shape = <<3, 1, 4, 3>>
    /\ fn_ret.value.s[3] = ToString(<<0>>)

-----------------------------------------------------------------------------
(* C19 *)

\* C19: every status request of a run goes to the polling_url of the run's
\* submit response, with the headers of the request before it (the submit
\* POST, then each earlier status request), x-key included, and with the
\* submit response's id as the `id` query parameter when that id is not
\* empty.
C19_StatusRequestsFollowSubmit ==
    [][(pc = "poll_check" /\ pc' = "poll_wait")
         => /\ http'.method = "GET"
            /\ post_resp # None
            /\ http'.url = post_resp.body.polling_url
            /\ http'.headers = http.headers
            /\ http'.headers.x_key = instance.key
            /\ post_resp.body.id.s # <<>>
                 => http'.params = Dict([id |-> post_resp.body.id])
            /\ post_resp.body.id.s = <<>> => http'.params = None]_vars

C19_Witness ==
    /\ http.method = "GET"
    /\ nGet >= 2
    /\ http.url = POLLING_URL
    /\ http.params = Dict([id |-> Str(<<"req-1">>)])

-----------------------------------------------------------------------------
(* C15 *)

IsErrorMessage(v) == v.t = "str" /\ v.s # <<>> /\ v.s[1] = "Error"

\* One of the error kinds has occurred in the node call: the resolution is
\* invalid, no API key is configured, or the client failed with a
\* configuration, transport, protocol, generation-failure or timeout error.
ErrorKindOccurred ==
    \/ ValidateResolution(node.width, node.height) # None
    \/ (instance # None /\ ~Truthy(instance.key))
    \/ IsConfigError(outcome)
    \/ IsTransportError(outcome)
    \/ IsProtocolError(outcome)
    \/ IsGenerationFailure(outcome)
    \/ IsTimeout(outcome)

ReturnsMessage ==
    \E i \in 1..Len(node_ret.value) : IsErrorMessage(node_ret.value[i])

\* C15: a node call always returns; when one of the error kinds occurred the
\* returned tuple holds an error message; and a placeholder image is returned
\* without a message only after a failed image download.
C15_ErrorsReturnMessage ==
    pc = "node_done"
        => /\ node_ret.kind = "return"
           /\ ErrorKindOccurred => ReturnsMessage
           /\ (/\ ~ReturnsMessage
               /\ \E i \in 1..Len(node_ret.value) :
                     node_ret.value[i] = PlaceholderImage)
                => (download # NoRequest /\ DownloadFailed(download.resp))

-----------------------------------------------------------------------------
(* C18 *)

\* The inputs of the node call pass its validation.
ValidInputs ==
    /\ ValidateResolution(node.width, node.height) = None
    /\ IsEdit(node.name) => Truthy(BaseImageValue(node))

\* C18: the submit POST of a flex node goes to the resolved flex base URL,
\* that of a pro node to the resolved pro base URL, and a node call with
\* valid inputs and a configured key has issued its submit POST.
C18_SubmitGoesToResolvedBaseUrl ==
    /\ (node # NoNode /\ http.method = "POST")
         => http.url = IF IsFlex(node.name)
                       THEN get_flex_base_url(instance)
                       ELSE get_base_url(instance)
    /\ (/\ pc = "node_done"
        /\ ValidInputs
        /\ instance # None
        /\ Truthy(get_key(instance)))
         => nPost = 1

-----------------------------------------------------------------------------
(* C20 *)

\* The final payload has no result.sample URL.
NoSampleUrl(body) ==
    IF body.result.t = "dict" THEN ~Truthy(body.result.d.sample) ELSE TRUE

\* C20: once the poll has ended on a 'Ready' payload without a result.sample
\* URL, run has returned with sample = None, and the node that called it
\* ends with an error outcome and without a download request.
C20_ReadyWithoutSampleReturns ==
    (node # NoNode /\ final # None /\ NoSampleUrl(final))
        => /\ outcome.kind = "return"
           /\ outcome.value.sample = None
           /\ pc = "node_done"
                => /\ download = NoRequest
                   /\ node_ret.value[Len(node_ret.value)] = PlaceholderImage

-----------------------------------------------------------------------------
(* C21 *)

\* C21: in the body a node's submit POST transmits, a width or height of 0
\* and a negative seed are absent, a positive width or height and a seed of 0
\* or more are sent as the numbers they are, and safety_tolerance is always
\* sent as given, 0 included.
C21_ZeroNumbersAreTransmitted ==
    (node # NoNode /\ http.method = "POST")
        => /\ node.width = 0 => http.json.width = Missing
           /\ node.height = 0 => http.json.height = Missing
           /\ node.width > 0 => http.json.width = [t |-> "int", i |-> node.width]
           /\ node.height > 0
                => http.json.height = [t |-> "int", i |-> node.height]
           /\ node.seed < 0 => http.json.seed = Missing
           /\ node.seed >= 0 => http.json.seed = [t |-> "int", i |-> node.seed]
           /\ http.json.safety_tolerance =
                  [t |-> "int", i |-> node.safety_tolerance]

C21_Witness ==
    /\ node # NoNode
    /\ http.method = "POST"
    /\ node.width = 0
    /\ node.height = 0
    /\ http.json.width = Missing
    /\ http.json.seed = [t |-> "int", i |-> 0]
    /\ http.json.safety_tolerance = [t |-> "int", i |-> 0]

-----------------------------------------------------------------------------
(* C22 *)

\* RETURN_TYPES of the node classes
ReturnTypes(name) ==
    IF IsFlex(name) THEN <<"IMAGE">> ELSE <<"STRING", "IMAGE">>

\* The host type a returned value belongs to.
HostType(v) ==
    IF v.t = "str" THEN "STRING"
    ELSE IF v.t = "tensor" THEN "IMAGE"
    ELSE "OTHER"

\* C22: the tuple a node call returns has as many elements as the node's
\* RETURN_TYPES, each of the declared type, on every return path.
C22_ReturnMatchesReturnTypes ==
    pc = "node_done"
        => /\ node_ret.kind = "return"
           /\ Len(node_ret.value) = Len(ReturnTypes(node.name))
           /\ \A i \in 1..Len(node_ret.value) :
                 i <= Len(ReturnTypes(node.name))
                    => HostType(node_ret.value[i]) = ReturnTypes(node.name)[i]

-----------------------------------------------------------------------------
(* C23 *)

\* A positive dimension of the node call is off the 16 grid or out of range.
ResolutionRejected ==
    \E d \in {node.width, node.height} :
        d > 0 /\ (d % 16 # 0 \/ d < 64 \/ d > 2048)

\* The edit node has neither a URL nor a convertible tensor for its base
\* image.
NoUsableBase ==
    /\ node.name \in {"pro_edit", "flex_edit"}
    /\ \A i \in 1..Len(node.input_image_url.s) :
          node.input_image_url.s[i] \in Whitespace
    /\ \/ node.input_image = None
       \/ Len(node.input_image.shape) \notin {3, 4}

\* C23: a node call whose resolution is rejected, or whose edit has no usable
\* base image, never constructs the configuration or the client, reports no
\* client error, issues no submit, status or download request, and ends with
\* its one-message error return.
C23_ValidationReturnsBeforeClient ==
    (node # NoNode /\ (ResolutionRejected \/ NoUsableBase))
        => /\ pc \in {"node_enter", "node_done"}
           /\ instance = None
           /\ headers = None
           /\ outcome = NoOutcome
           /\ http = NoRequest
           /\ download = NoRequest
           /\ nPost = 0
           /\ nGet = 0
           /\ pc = "node_done"
                => /\ Len(node_ret.value) = 1
                   /\ node_ret.value[1].t = "str"
                   /\ node_ret.value[1].s[1] = "Error"

C23_Witness ==
    /\ pc = "node_done"
    /\ node.name = "pro_edit"
    /\ NoUsableBase
    /\ environ = NoEnv
    /\ Len(node_ret.value) = 1

-----------------------------------------------------------------------------
(* C24 *)

\* text is what is left of the string full once the whitespace at both of its
\* ends is removed.
IsTrimOf(text, full) ==
    /\ text # <<>>
    /\ text[1] \notin Whitespace
    /\ text[Len(text)] \notin Whitespace
    /\ \E a \in 0..Len(full), b \in 0..Len(full) :
          /\ a + Len(text) + b = Len(full)
          /\ \A k \in 1..a : full[k] \in Whitespace
          /\ \A k \in 1..b : full[Len(full) + 1 - k] \in Whitespace
          /\ \A k \in 1..Len(text) : text[k] = full[a + k]

\* C24: in the result of merge_reference_images the field input_image_(i+1)
\* is either absent or the trimmed i-th extra and nothing else; it is absent
\* when the i-th extra is blank or does not exist, and present for a
\* non-blank extra among the first 7; input_image is the base image exactly
\* when the base image is a non-empty string.
C24_MergeKeepsSlotPositions ==
    fn_ret.kind = "return"
        => LET extras == fn_args.additional_images
               main == fn_args.main_image
               out == fn_ret.value
           IN  /\ \A i \in 1..9 :
                     LET slot == out["input_image_" \o ToString(i + 1)]
                     IN  /\ slot # Missing
                              => /\ i <= Len(extras)
                                 /\ slot.t = "str"
                                 /\ IsTrimOf(slot.s, extras[i].s)
                         /\ (/\ i <= Len(extras)
                             /\ i <= 7
                             /\ \E k \in 1..Len(extras[i].s) :
                                   extras[i].s[k] \notin Whitespace)
                              => slot # Missing
               /\ main.s # <<>> => out["input_image"] = main
               /\ main.s = <<>> => out["input_image"] = Missing

C24_Witness ==
    /\ fn_ret.kind = "return"
    /\ Len(fn_args.additional_images) = 3
    /\ fn_args.additional_images[1] = Str(<<WS>>)
    /\ fn_args.additional_images[2] = Str(<<WS, "img">>)
    /\ fn_args.additional_images[3] = Str(<<>>)
    /\ fn_ret.value["input_image_2"] = Missing
    /\ fn_ret.value["input_image_3"] = Str(<<"img">>)
    /\ fn_ret.value["input_image"] = Str(<<"base">>)

-----------------------------------------------------------------------------
(* FloyoFlux2APINode._poll_for_result (custom_nodes/floyo_flux2_api_node) *)

\* _poll_for_result: the statuses that raise the generation failure
LEGACY_FAILURES ==
    {Str(<<"Error">>), Str(<<"Failed">>), Str(<<"Content", WS, "Moderated">>),
     Str(<<"Request", WS, "Moderated">>)}

\* _poll_for_result: the headers of the status request
LegacyHeaders(api_key) ==
    [accept |-> Str(<<"application/json">>), x_key |-> api_key]

\* The loop body goes on to time.sleep.
Continue == [kind |-> "continue"]

LegacyStepDeadlineFirst(body, elapsed, max_wait_seconds) ==
    LET status == Get(body, "status", None)
    IN  IF elapsed > max_wait_seconds /\ status \notin LEGACY_FAILURES
        THEN Raised([type |-> "TimeoutError"])
        ELSE IF status = Ready
        THEN LET result_obj == Get(body, "result", Dict([sample |-> Missing]))
             IN  IF result_obj.t # "dict"
                 THEN Raised([type |-> "AttributeError"])
                 ELSE LET image_url == Get(result_obj.d, "sample", None)
                      IN  IF ~Truthy(image_url)
                          THEN Raised([type |-> "RuntimeError",
                                       msg |-> "missing sample"])
                          ELSE Returned(image_url)
        ELSE IF status \in LEGACY_FAILURES
        THEN Raised([type |-> "RuntimeError", msg |-> "failed",
                     status |-> status, payload |-> body])
        ELSE Continue

\* _poll_for_result: what one round of the loop does with the JSON body of
\* a status response, elapsed seconds after start_time.
LegacyStep(body, elapsed, max_wait_seconds) ==
    LET status == Get(body, "status", None)
    IN  IF status = Ready
        THEN LET result_obj == Get(body, "result", Dict([sample |-> Missing]))
             IN  IF result_obj.t # "dict"
                 THEN Raised([type |-> "AttributeError"])
                 ELSE LET image_url == Get(result_obj.d, "sample", None)
                      IN  IF ~Truthy(image_url)
                          THEN Raised([type |-> "RuntimeError",
                                       msg |-> "missing sample"])
                          ELSE Returned(image_url)
        ELSE IF status \in LEGACY_FAILURES
        THEN Raised([type |-> "RuntimeError", msg |-> "failed",
                     status |-> status, payload |-> body])
        ELSE IF elapsed > max_wait_seconds
        THEN Raised([type |-> "TimeoutError"])
        ELSE Continue

legacyFrame == <<environ, config_file, instance, timeout, poll_interval,
                 headers, payload, post_resp, initial, final, last_status,
                 printed, outcome, nPost, warned, node, node_ret, download,
                 fn_args>>

\* _poll_for_result: `start_time = time.time()`
LegacyPollStart ==
    /\ pc = "init"
    /\ fn_ret = NotCalled
    /\ start_time' = now
    /\ pc' = "legacy_get"
    /\ UNCHANGED <<legacyFrame, http, get_resp, now, nGet, nSleep, fn_ret>>

\* _poll_for_result: the top of `while True`, requests.get(polling_url, ...)
LegacyPollRequest ==
    /\ pc = "legacy_get"
    /\ http' = [method |-> "GET", url |-> fn_args.polling_url,
                headers |-> LegacyHeaders(fn_args.api_key), json |-> None,
                params |-> None, at |-> now]
    /\ nGet' = Min(nGet + 1, CountCap)
    /\ pc' = "legacy_wait"
    /\ UNCHANGED <<legacyFrame, get_resp, now, start_time, nSleep, fn_ret>>

\* _poll_for_result: the status response arrives; raise_for_status, json()
\* and the rest of the loop body up to time.sleep.
LegacyPollResponse ==
    /\ pc = "legacy_wait"
    /\ \E lat \in 0..MaxLatency, r \in GetResponses :
          LET err == TransportError(r)
              t_now == Min(now + lat, ClockCap)
              step == IF err # None THEN Raised(err)
                      ELSE LegacyStep(r.body, t_now - start_time,
                                      fn_args.max_wait_seconds)
          IN  /\ now' = t_now
              /\ get_resp' = r
              /\ IF step = Continue
                 THEN /\ pc' = "legacy_sleep"
                      /\ UNCHANGED fn_ret
                 ELSE /\ pc' = "legacy_done"
                      /\ fn_ret' = step
    /\ UNCHANGED <<legacyFrame, http, start_time, nGet, nSleep>>

\* _poll_for_result: time.sleep(poll_interval)
LegacySleep ==
    /\ pc = "legacy_sleep"
    /\ \E over \in 0..MaxOversleep :
          now' = Min(now + fn_args.poll_interval + over, ClockCap)
    /\ nSleep' = Min(nSleep + 1, CountCap)
    /\ pc' = "legacy_get"
    /\ UNCHANGED <<legacyFrame, http, get_resp, start_time, nGet, fn_ret>>

\* The deadlines the caller may pass, a negative one included.
LegacyWaits == -1..MaxTimeout

LegacyInit ==
    /\ HelperStart
    /\ fn_args \in [polling_url : {POLLING_URL}, api_key : {KEY_ENV},
                    poll_interval : 0..MaxInterval,
                    max_wait_seconds : LegacyWaits]

LegacyNext ==
    \/ LegacyPollStart
    \/ LegacyPollRequest
    \/ LegacyPollResponse
    \/ LegacySleep

LegacySpec == LegacyInit /\ [][LegacyNext]_vars

-----------------------------------------------------------------------------
(* C25 *)

\* The last status response was delivered as JSON.
LegacyAnswered ==
    /\ get_resp # None
    /\ get_resp.code \in {200, 304}
    /\ get_resp.body # NotJson

\* The last status response carries a status that ends the job.
LegacyTerminal ==
    get_resp.body.status \in
        {[t |-> "str", s |-> <<"Ready">>], [t |-> "str", s |-> <<"Error">>],
         [t |-> "str", s |-> <<"Failed">>],
         [t |-> "str", s |-> <<"Content", " ", "Moderated">>],
         [t |-> "str", s |-> <<"Request", " ", "Moderated">>]}

LegacyReadyWithSample ==
    /\ LegacyAnswered
    /\ get_resp.body.status = [t |-> "str", s |-> <<"Ready">>]
    /\ get_resp.body.result = [t |-> "dict", d |-> [sample |-> SAMPLE_URL]]

\* C25: in the legacy node's _poll_for_result a call never ends before a
\* status request was issued, whatever max_wait_seconds is; a "Ready"
\* response with a sample URL is returned as the result however much time
\* has passed; and TimeoutError is raised only when the last response was
\* answered with a non-terminal status and the elapsed time exceeds
\* max_wait_seconds.
C25_TerminalStatusBeatsDeadline ==
    /\ fn_ret # NotCalled => (nGet >= 1 /\ http.method = "GET")
    /\ (pc = "legacy_done" /\ LegacyReadyWithSample)
          => fn_ret = [kind |-> "return", value |-> SAMPLE_URL]
    /\ (fn_ret.kind = "raise" /\ fn_ret.exc.type = "TimeoutError")
          => /\ LegacyAnswered
             /\ ~LegacyTerminal
             /\ now - start_time > fn_args.max_wait_seconds

C25_Witness ==
    /\ pc = "legacy_done"
    /\ LegacyReadyWithSample
    /\ fn_ret.kind = "return"
    /\ fn_args.max_wait_seconds >= 0
    /\ now - start_time > fn_args.max_wait_seconds
    /\ nSleep >= 1

====
